---- MODULE Spec2Model ----
(***************************************************************************)
(* A model of galactic's taggers (src/src/galactic/taggers.py): the        *)
(* operations tag_string, tag_regex, detect_language, calc_perplexity,     *)
(* detect_pii, detect_seo_spam and count_tokens acting on the controller's *)
(* dataset.                                                                *)
(*                                                                         *)
(* Text is a sequence of one-character strings.  A field value is a tagged *)
(* record: [t |-> "str", s |-> text], [t |-> "list", l |-> <<text, ...>>]  *)
(* or [t |-> "none"] (Python's None).  Values the operations write are     *)
(* plain booleans, numbers and strings.                                    *)
(***************************************************************************)
EXTENDS Integers, Sequences, FiniteSets, TLC

\* ------------------------------------------------------------------ text

NL == "\n"
BS == "\\"
SP == " "

StrVal(s) == [t |-> "str", s |-> s]
ListVal(l) == [t |-> "list", l |-> l]
NoneVal == [t |-> "none"]

\* isinstance(x, str)
IsStr(v) == v.t = "str"

\* repr() of one character inside a str: a newline and a backslash are escaped
ReprChar(c) == IF c = NL THEN <<BS, "n">> ELSE IF c = BS THEN <<BS, BS>> ELSE <<c>>

RECURSIVE ReprBody(_)
ReprBody(s) == IF s = <<>> THEN <<>> ELSE ReprChar(Head(s)) \o ReprBody(Tail(s))

\* repr() of a str (texts here hold no quote character): 'body'
ReprStr(s) == <<"'">> \o ReprBody(s) \o <<"'">>

RECURSIVE ReprItems(_)
ReprItems(l) ==
    IF l = <<>> THEN <<>>
    ELSE IF Len(l) = 1 THEN ReprStr(l[1])
    ELSE ReprStr(l[1]) \o <<",", SP>> \o ReprItems(Tail(l))

\* str(x) for a value that is not a str: None prints as None, a list as the
\* bracketed repr of its elements
Str(v) ==
    IF v.t = "none" THEN <<"N", "o", "n", "e">>
    ELSE IF v.t = "list" THEN <<"[">> \o ReprItems(v.l) \o <<"]">>
    ELSE v.s

RECURSIVE ReplaceNewlines(_)
\* x.replace("\n", " ")
ReplaceNewlines(s) ==
    IF s = <<>> THEN <<>>
    ELSE <<IF Head(s) = NL THEN SP ELSE Head(s)>> \o ReplaceNewlines(Tail(s))

LowerChar(c) == IF c = "A" THEN "a" ELSE IF c = "B" THEN "b" ELSE c

RECURSIVE Lower(_)
\* x.lower()
Lower(s) == IF s = <<>> THEN <<>> ELSE <<LowerChar(Head(s))>> \o Lower(Tail(s))

\* the number of bytes of one character in UTF-8
CharBytes(c) == IF c = "e-acute" THEN 2 ELSE 1

RECURSIVE byte_len(_)
\* utils.byte_len: the length of the UTF-8 encoding
byte_len(s) == IF s = <<>> THEN 0 ELSE CharBytes(Head(s)) + byte_len(Tail(s))

\* ----------------------------------------------------------------- regex

\* the characters re.escape puts a backslash before (those of the alphabet)
EscapedChars == {".", "|", BS, NL, SP, "[", "]", "-"}

RECURSIVE re_escape(_)
re_escape(s) ==
    IF s = <<>> THEN <<>>
    ELSE (IF Head(s) \in EscapedChars THEN <<BS, Head(s)>> ELSE <<Head(s)>>)
         \o re_escape(Tail(s))

RECURSIVE JoinBar(_)
\* "|".join(parts)
JoinBar(parts) ==
    IF parts = <<>> THEN <<>>
    ELSE IF Len(parts) = 1 THEN parts[1]
    ELSE parts[1] \o <<"|">> \o JoinBar(Tail(parts))

Lit(c) == [k |-> "lit", c |-> c]
AnyTok == [k |-> "any", c |-> ""]
DigitTok == [k |-> "digit", c |-> ""]
BarTok == [k |-> "bar", c |-> ""]
BadTok == [k |-> "bad", c |-> ""]

Digits == {"0", "5"}
Letters == {"a", "b", "x", "A", "B", "N", "o", "n", "e", "d"}

RECURSIVE Tokens(_)
\* the pattern syntax re.compile reads, for the forms the patterns here use:
\* . | \d \n, a backslash before a punctuation character, and a literal.
\* A backslash that ends the pattern, or one before another letter, is an error.
Tokens(p) ==
    IF p = <<>> THEN <<>>
    ELSE IF Head(p) = BS THEN
        IF Len(p) = 1 THEN <<BadTok>>
        ELSE IF p[2] = "d" THEN <<DigitTok>> \o Tokens(SubSeq(p, 3, Len(p)))
        ELSE IF p[2] = "n" THEN <<Lit(NL)>> \o Tokens(SubSeq(p, 3, Len(p)))
        ELSE IF p[2] \in Letters \cup Digits THEN <<BadTok>>
        ELSE <<Lit(p[2])>> \o Tokens(SubSeq(p, 3, Len(p)))
    ELSE IF Head(p) = "." THEN <<AnyTok>> \o Tokens(Tail(p))
    ELSE IF Head(p) = "|" THEN <<BarTok>> \o Tokens(Tail(p))
    ELSE <<Lit(Head(p))>> \o Tokens(Tail(p))

RECURSIVE SplitBar(_, _)
\* the alternatives of a token sequence: cur is the alternative being read
SplitBar(toks, cur) ==
    IF toks = <<>> THEN <<cur>>
    ELSE IF Head(toks).k = "bar" THEN <<cur>> \o SplitBar(Tail(toks), <<>>)
    ELSE SplitBar(Tail(toks), Append(cur, Head(toks)))

\* re.compile(pattern): the alternatives, or an error
re_compile(p) ==
    LET toks == Tokens(p) IN
    IF \E i \in 1..Len(toks) : toks[i].k = "bad"
    THEN [ok |-> FALSE, alts |-> <<>>]
    ELSE [ok |-> TRUE, alts |-> SplitBar(toks, <<>>)]

TokMatches(tok, c) ==
    IF tok.k = "lit" THEN c = tok.c
    ELSE IF tok.k = "digit" THEN c \in Digits
    ELSE c # NL

MatchAt(alt, s, i) ==
    /\ i + Len(alt) - 1 <= Len(s)
    /\ \A j \in 1..Len(alt) : TokMatches(alt[j], s[i + j - 1])

\* regexp.search(s) is not None
re_search(regexp, s) ==
    \E a \in 1..Len(regexp.alts) : \E i \in 1..(Len(s) + 1) :
        MatchAt(regexp.alts[a], s, i)

\* --------------------------------------------------------------- dataset

\* self.dataset: features maps a column name to its dtype, rows are the samples
\* (each a mapping from every column name to the row's value)
VARIABLES dataset, prev, last, calls

vars == <<dataset, prev, last, calls>>

\* the longest dataset and the longest chain of calls explored
MaxRows == 2
MaxCalls == 2

\* fixed-point representation of the probability 1.0 (percent)
One == 100

Omitted == "<omitted>"
PyNone == "<None>"

T_adotb == <<"a", ".", "b">>
T_axbA == <<"a", "x", "b", NL, "A">>

\* the samples a dataset is built from: a text column (which may hold None), a
\* title column and a column of lists
RowPool ==
    { [text |-> StrVal(T_axbA), title |-> StrVal(<<"B", "x">>),
       meta |-> ListVal(<< <<"5", "e-acute">> >>)],
      [text |-> NoneVal, title |-> StrVal(<<"a">>),
       meta |-> ListVal(<< <<"a", ".", "b", NL>> >>)] }

UserFeatures == [text |-> "string", title |-> "string", meta |-> "list"]

RowSeqs == UNION {[1..n -> RowPool] : n \in 0..MaxRows}

\* what one application of a per-row function gives: the columns it returns, or
\* the exception it raises; q and a are the texts it passed to a model and the
\* model's answers
RowOk(out, q, a) == [ok |-> TRUE, err |-> "", out |-> out, q |-> q, a |-> a]
RowErr(err, q) == [ok |-> FALSE, err |-> err, out |-> <<>>, q |-> q, a |-> <<>>]

\* the first row whose function raises, 0 when none does
FirstFail(rs) ==
    IF \E i \in 1..Len(rs) : ~rs[i].ok
    THEN CHOOSE i \in 1..Len(rs) : ~rs[i].ok /\ \A j \in 1..(i - 1) : rs[j].ok
    ELSE 0

\* Dataset.map(fn) when no row raises: an empty dataset is returned as it is,
\* otherwise each row gets the columns its function returned
Merged(ds, rs, dtypes) ==
    IF Len(ds.rows) = 0 THEN ds
    ELSE [features |-> dtypes @@ ds.features,
          rows |-> [i \in 1..Len(ds.rows) |-> rs[i].out @@ ds.rows[i]]]

\* an exception leaves the handler before the assignment to self.dataset
Raise(ds, warned, err, stage) ==
    [outcome |-> err, stage |-> stage, warned |-> warned, ret |-> "raised",
     dataset |-> ds, results |-> <<>>]

\* a failing map applied to part of the rows and assigned nevertheless
AssignPartial(ds, warned, rs, dtypes) ==
    LET ff == FirstFail(rs) IN
    IF ff = 0
    THEN [outcome |-> "ok", stage |-> "done", warned |-> warned, ret |-> "self",
          dataset |-> Merged(ds, rs, dtypes), results |-> rs]
    ELSE [outcome |-> rs[ff].err, stage |-> "map", warned |-> warned,
          ret |-> "raised",
          dataset |-> [features |-> dtypes @@ ds.features,
                       rows |-> [i \in 1..Len(ds.rows) |->
                                    IF i < ff THEN rs[i].out @@ ds.rows[i]
                                    ELSE [c \in DOMAIN dtypes |-> PyNone] @@ ds.rows[i]]],
          results |-> SubSeq(rs, 1, ff)]

\* self.dataset = self.dataset.map(fn); ...; return self
\* rs[i] is fn(rows[i]); map applies fn row by row and an exception of fn leaves
\* both map and the handler, so that nothing is assigned
Assign(ds, warned, rs, dtypes) ==
    LET ff == FirstFail(rs) IN
    IF ff = 0
    THEN [outcome |-> "ok", stage |-> "done", warned |-> warned, ret |-> "self",
          dataset |-> Merged(ds, rs, dtypes), results |-> rs]
    ELSE [outcome |-> rs[ff].err, stage |-> "map", warned |-> warned,
          ret |-> "raised", dataset |-> ds, results |-> SubSeq(rs, 1, ff)]

\* the value analysed: the str itself, str(value) for any other value
Text(v) == IF IsStr(v) THEN v.s ELSE Str(v)

\* --------------------------------------------------- tag_string, tag_regex

\* the existence check made on the bare tag name
tag_exists_bare(ds, tag) == tag \in DOMAIN ds.features

\* f"__tag__{tag}" in self.dataset.column_names
tag_exists(ds, tag) == ("__tag__" \o tag) \in DOMAIN ds.features

\* "|".join([re.escape(val) for val in values])
literal_pattern(values) == JoinBar([i \in 1..Len(values) |-> re_escape(values[i])])

\* the loop that returns at the first field present in the sample
tag_first_present(regexp, fields, sample) ==
    IF \E i \in 1..Len(fields) : fields[i] \in DOMAIN sample
    THEN LET i == CHOOSE k \in 1..Len(fields) :
                    /\ fields[k] \in DOMAIN sample
                    /\ \A j \in 1..(k - 1) : fields[j] \notin DOMAIN sample
         IN  re_search(regexp, Text(sample[fields[i]]))
    ELSE FALSE

RECURSIVE tag_loop(_, _, _)
\* tag_: for field in fields: a field absent from the sample is skipped, the
\* first field with a match returns True, no field with a match returns False
tag_loop(regexp, fields, sample) ==
    IF fields = <<>> THEN FALSE
    ELSE IF Head(fields) \in DOMAIN sample
            /\ re_search(regexp, Text(sample[Head(fields)]))
    THEN TRUE
    ELSE tag_loop(regexp, Tail(fields), sample)

tag_(regexp, fields, sample) == tag_loop(regexp, fields, sample)

\* tag_string whose tag_ returns nothing for a sample without a match
tag_string_sparse(ds, fields, values, tag) ==
    LET col == "__tag__" \o tag
        warned == tag_exists(ds, tag)
        regexp == re_compile(literal_pattern(values))
    IN  Assign(ds, warned,
               [i \in 1..Len(ds.rows) |->
                   IF tag_(regexp, fields, ds.rows[i])
                   THEN RowOk(col :> TRUE, <<>>, <<>>)
                   ELSE RowOk(<<>>, <<>>, <<>>)],
               col :> "bool")

tag_string(ds, fields, values, tag) ==
    LET col == "__tag__" \o tag
        warned == tag_exists(ds, tag)
        regexp == re_compile(literal_pattern(values))
    IN  IF ~regexp.ok THEN Raise(ds, warned, "re.error", "compile")
        ELSE Assign(ds, warned,
                    [i \in 1..Len(ds.rows) |->
                        RowOk(col :> tag_(regexp, fields, ds.rows[i]), <<>>, <<>>)],
                    col :> "bool")

tag_regex(ds, fields, regex, tag) ==
    LET col == "__tag__" \o tag
        warned == tag_exists(ds, tag)
        regexp == re_compile(regex)
    IN  IF ~regexp.ok THEN Raise(ds, warned, "re.error", "compile")
        ELSE Assign(ds, warned,
                    [i \in 1..Len(ds.rows) |->
                        RowOk(col :> tag_(regexp, fields, ds.rows[i]), <<>>, <<>>)],
                    col :> "bool")

\* ------------------------------------------------------- fastText models

\* A fastText classifier is opaque: it is one of a few stand-ins, each giving a
\* (label, probability) that depends on whether the text holds a marker
Label(name) == [prefix |-> "__label__", name |-> name]

\* label.split("__label__")[1]
LabelName(label) == label.name

HasNewline(q) == \E i \in 1..Len(q) : q[i] = NL

\* model.predict(text): the top label and its probability.  fastText reads one
\* line: its callers below raise ValueError for a text that holds a newline
predict(model, q) ==
    LET pick == IF \E i \in 1..Len(q) : q[i] = model.mark THEN model.hit ELSE model.miss
    IN  [labels |-> <<Label(pick[1])>>, probs |-> <<pick[2]>>]

LidModels ==
    { [mark |-> "x", hit |-> <<"fr", 90>>, miss |-> <<"en", 60>>],
      [mark |-> "N", hit |-> <<"de", 70>>, miss |-> <<"en", 100>>] }

SpamModels ==
    { [mark |-> "x", hit |-> <<"discard", 80>>, miss |-> <<"keep", 90>>],
      [mark |-> "a", hit |-> <<"keep", 90>>, miss |-> <<"discard", 0>>] }

\* -------------------------------------------------------- detect_language

\* detect_ without the replacement of newlines
language_detect_raw(model, field, sample) ==
    LET q == IF IsStr(sample[field]) THEN sample[field].s ELSE Str(sample[field])
    IN  IF HasNewline(q) THEN RowErr("ValueError", <<q>>)
        ELSE LET ans == predict(model, q)
             IN  RowOk("__language" :> LabelName(ans.labels[1]), <<q>>, <<ans>>)

\* detect_: a str has its newlines replaced, any other value is passed as str(value)
language_detect_(model, field, sample) ==
    LET q == IF IsStr(sample[field])
             THEN ReplaceNewlines(sample[field].s)
             ELSE Str(sample[field])
    IN  IF HasNewline(q) THEN RowErr("ValueError", <<q>>)
        ELSE LET ans == predict(model, q)
             IN  RowOk("__language" :> LabelName(ans.labels[1]), <<q>>, <<ans>>)

detect_language(ds, field, loadOk, model) ==
    IF field \notin DOMAIN ds.features THEN Raise(ds, FALSE, "ValueError", "validate")
    ELSE IF ~loadOk THEN Raise(ds, FALSE, "OSError", "load")
    ELSE Assign(ds, FALSE,
                [i \in 1..Len(ds.rows) |-> language_detect_(model, field, ds.rows[i])],
                "__language" :> "string")

\* -------------------------------------------------------- calc_perplexity

\* the check that wants both arguments to be None
kenlm_unconfigured_both(language, dataset_arg) == language = PyNone /\ dataset_arg = PyNone

\* language is None or dataset is None
kenlm_unconfigured(language, dataset_arg) == language = PyNone \/ dataset_arg = PyNone

\* a parameter left out of the call takes the default of the signature
Bound(arg, default) == IF arg = Omitted THEN default ELSE arg

\* The score itself is opaque: a value names the backend that gave it, the text
\* scored and, for pythia, the byte length its exponent is divided by
pythia_calc_(field, sample) ==
    IF ~IsStr(sample[field]) THEN RowErr("ValueError", <<>>)
    ELSE RowOk("__perplexity" :>
                   [backend |-> "pythia", dataset |-> "", language |-> "",
                    text |-> sample[field].s, bytes |-> byte_len(sample[field].s)],
               <<sample[field].s>>, <<>>)

kenlm_calc_(dataset_arg, language, field, sample) ==
    IF ~IsStr(sample[field]) THEN RowErr("AttributeError", <<>>)
    ELSE RowOk("__perplexity" :>
                   [backend |-> "kenlm", dataset |-> dataset_arg, language |-> language,
                    text |-> sample[field].s, bytes |-> 0],
               <<sample[field].s>>, <<>>)

calc_perplexity(ds, field, model_arg, language_arg, dataset_arg, loadOk) ==
    LET model == Bound(model_arg, "kenlm")
        language == Bound(language_arg, "en")
        dset == Bound(dataset_arg, "wikipedia")
    IN  IF field \notin DOMAIN ds.features
        THEN Raise(ds, FALSE, "ValueError", "validate")
        ELSE IF ds.features[field] # "string"
        THEN Raise(ds, FALSE, "ValueError", "validate")
        ELSE IF model = "pythia"
        THEN IF ~loadOk THEN Raise(ds, FALSE, "OSError", "load")
             ELSE Assign(ds, FALSE,
                         [i \in 1..Len(ds.rows) |-> pythia_calc_(field, ds.rows[i])],
                         "__perplexity" :> "float64")
        ELSE IF model = "kenlm"
        THEN IF kenlm_unconfigured(language, dset)
             THEN Raise(ds, FALSE, "ValueError", "config")
             ELSE IF ~loadOk THEN Raise(ds, FALSE, "OSError", "load")
             ELSE Assign(ds, FALSE,
                         [i \in 1..Len(ds.rows) |->
                             kenlm_calc_(dset, language, field, ds.rows[i])],
                         "__perplexity" :> "float64")
        ELSE Raise(ds, FALSE, "ValueError", "config")

\* ------------------------------------------------------------- detect_pii

\* The scanner is opaque: a stand-in reports one finding for each occurrence of
\* a marker character, named after the detector the marker stands for
Scanners ==
    { ("." :> "email") @@ ("5" :> "phone"),
      ("x" :> "credential") @@ ("A" :> "twitter"),
      ("N" :> "twitter") }

RECURSIVE list_filth(_, _)
\* scrubadub.list_filth(text)
list_filth(scanner, text) ==
    IF text = <<>> THEN <<>>
    ELSE (IF Head(text) \in DOMAIN scanner
          THEN <<[detector_name |-> scanner[Head(text)]]>>
          ELSE <<>>) \o list_filth(scanner, Tail(text))

RECURSIVE pii_filth(_, _, _)
\* for field in fields: if field in sample: filth.extend(list_filth(...))
pii_filth(scanner, fields, sample) ==
    IF fields = <<>> THEN <<>>
    ELSE (IF Head(fields) \in DOMAIN sample
          THEN list_filth(scanner, Text(sample[Head(fields)]))
          ELSE <<>>) \o pii_filth(scanner, Tail(fields), sample)

TrackedPii == {"email", "phone", "credential"}

PiiColumns(flags, any) ==
    [c \in {"__pii__email", "__pii__phone", "__pii__credential", "__pii__any"} |->
        IF c = "__pii__email" THEN flags["email"]
        ELSE IF c = "__pii__phone" THEN flags["phone"]
        ELSE IF c = "__pii__credential" THEN flags["credential"]
        ELSE any]

\* detect_ with the aggregate flag taken from the tracked categories alone
pii_detect_tracked(scanner, fields, sample) ==
    LET filth == pii_filth(scanner, fields, sample)
        filth_types == {filth[i].detector_name : i \in 1..Len(filth)}
        flags == [f \in TrackedPii |-> f \in filth_types]
    IN  RowOk(PiiColumns(flags, \E f \in TrackedPii : flags[f]), <<>>, <<filth>>)

\* detect_: one flag per tracked category, and __pii__any = len(filth) > 0
pii_detect_(scanner, fields, sample) ==
    LET filth == pii_filth(scanner, fields, sample)
        filth_types == {filth[i].detector_name : i \in 1..Len(filth)}
        flags == [f \in TrackedPii |-> f \in filth_types]
    IN  RowOk(PiiColumns(flags, Len(filth) > 0), <<>>, <<filth>>)

PiiDtypes ==
    [c \in {"__pii__email", "__pii__phone", "__pii__credential", "__pii__any"} |-> "bool"]

detect_pii(ds, fields, scanner) ==
    Assign(ds, FALSE,
           [i \in 1..Len(ds.rows) |-> pii_detect_(scanner, fields, ds.rows[i])],
           PiiDtypes)

\* -------------------------------------------------------- detect_seo_spam

\* output columns that do not carry the field's name
spam_columns_fixed(field) == [flag |-> "__seo_spam__", prob |-> "__seo_spam_prob__"]

\* f"__seo_spam__{field}", f"__seo_spam_prob__{field}"
spam_columns(field) ==
    [flag |-> "__seo_spam__" \o field, prob |-> "__seo_spam_prob__" \o field]

\* detect_ that passes the returned probability through for either label
spam_detect_uncalibrated(model, field, sample) ==
    IF ~IsStr(sample[field]) THEN RowErr("AttributeError", <<>>)
    ELSE LET q == Lower(ReplaceNewlines(sample[field].s)) IN
         IF HasNewline(q) THEN RowErr("ValueError", <<q>>)
         ELSE LET result == predict(model, q)
                  label == LabelName(result.labels[1])
                  prob == result.probs[1]
              IN  RowOk((spam_columns(field).flag :> (label = "discard"))
                        @@ (spam_columns(field).prob :> prob),
                        <<q>>, <<result>>)

\* detect_: sample[field].replace("\n", " ").lower() is classified; None has no
\* replace, which raises
spam_detect_(model, field, sample) ==
    IF ~IsStr(sample[field]) THEN RowErr("AttributeError", <<>>)
    ELSE LET q == Lower(ReplaceNewlines(sample[field].s)) IN
         IF HasNewline(q) THEN RowErr("ValueError", <<q>>)
         ELSE LET result == predict(model, q)
                  label == LabelName(result.labels[1])
                  prob == result.probs[1]
              IN  IF label = "discard"
                  THEN RowOk((spam_columns(field).flag :> TRUE)
                             @@ (spam_columns(field).prob :> prob),
                             <<q>>, <<result>>)
                  ELSE RowOk((spam_columns(field).flag :> FALSE)
                             @@ (spam_columns(field).prob :> One - prob),
                             <<q>>, <<result>>)

detect_seo_spam(ds, field, loadOk, model) ==
    IF field \notin DOMAIN ds.features THEN Raise(ds, FALSE, "ValueError", "validate")
    ELSE IF ds.features[field] # "string" THEN Raise(ds, FALSE, "ValueError", "validate")
    ELSE IF ~loadOk THEN Raise(ds, FALSE, "OSError", "load")
    ELSE Assign(ds, FALSE,
                [i \in 1..Len(ds.rows) |-> spam_detect_(model, field, ds.rows[i])],
                (spam_columns(field).flag :> "bool")
                @@ (spam_columns(field).prob :> "float64"))

\* ----------------------------------------------------------- count_tokens

KnownTokenizers == {"gpt2"}

\* len(tokenizer(text).input_ids) for a stand-in tokenizer: one token a character
\* and an end-of-text token
TokenCount(text) == Len(text) + 1

\* lambda x: {f"{field_name}{field}": count_fn(x[field]) for field in fields}
\* x[field] raises KeyError for a field the sample does not hold
count_row(field_name, bytes, fields, sample) ==
    IF \E k \in 1..Len(fields) : fields[k] \notin DOMAIN sample
    THEN RowErr("KeyError", <<>>)
    ELSE RowOk([c \in {field_name \o fields[k] : k \in 1..Len(fields)} |->
                   LET k == CHOOSE j \in 1..Len(fields) :
                               /\ field_name \o fields[j] = c
                               /\ \A m \in (j + 1)..Len(fields) :
                                      field_name \o fields[m] # c
                   IN  IF bytes THEN byte_len(Str(sample[fields[k]]))
                       ELSE TokenCount(Str(sample[fields[k]]))],
               <<>>, <<>>)

count_tokens(ds, fields, tokenizer_arg) ==
    LET tokenizer == Bound(tokenizer_arg, PyNone)
        field_name == IF tokenizer = PyNone THEN "__byte_count__" ELSE "__token_count__"
    IN  IF tokenizer # PyNone /\ tokenizer \notin KnownTokenizers
        THEN Raise(ds, FALSE, "OSError", "load")
        ELSE Assign(ds, FALSE,
                    [i \in 1..Len(ds.rows) |->
                        count_row(field_name, tokenizer = PyNone, fields, ds.rows[i])],
                    [c \in {field_name \o fields[k] : k \in 1..Len(fields)} |-> "int64"])

\* ------------------------------------------------------------ the calls

\* the arguments the calls are made with
Fields == {"text", "meta", "missing"}
SpamFields == {"text", "title", "meta", "missing"}
FieldLists == {<<"missing">>, <<"missing", "meta", "text">>}
CountFieldLists == {<<"text">>, <<"meta">>, <<"meta", "missing">>}
Tags == {"j", "k"}
ValueLists == {<<T_adotb>>, << <<"B">>, <<"5">> >>, <<>>}
Regexes == {<<"a", ".", "b">>, <<BS, "d", "|", "B">>, <<"x", BS>>}
TokenizerArgs == {Omitted, "gpt2", "no-such-tokenizer"}

PplCall(field, model, language, dataset_arg) ==
    [field |-> field, model |-> model, language |-> language, dataset |-> dataset_arg]

\* calc_perplexity's calls: each backend name, each argument left out, given and
\* None, and each kind of field
PerplexityCalls ==
    { PplCall("text", Omitted, Omitted, Omitted),
      PplCall("text", Omitted, "fr", Omitted),
      PplCall("text", Omitted, Omitted, "oscar"),
      PplCall("text", Omitted, PyNone, "oscar"),
      PplCall("text", Omitted, "fr", PyNone),
      PplCall("text", "pythia", PyNone, "oscar"),
      PplCall("text", "gpt2", "fr", "oscar"),
      PplCall("meta", Omitted, Omitted, Omitted),
      PplCall("missing", "pythia", Omitted, Omitted) }

NoModel == [mark |-> "", hit |-> <<"", 0>>, miss |-> <<"", 0>>]

\* the record of a call: its name and arguments (those it does not take are empty)
NoCall ==
    [op |-> "", fields |-> <<>>, field |-> "", tag |-> "", values |-> <<>>,
     regex |-> <<>>, model |-> "", language |-> "", dataset |-> "",
     tokenizer |-> "", fasttext |-> NoModel, scanner |-> <<>>]

Init ==
    /\ dataset \in {[features |-> UserFeatures, rows |-> rows] : rows \in RowSeqs}
    /\ prev = dataset
    /\ last = [call |-> NoCall, outcome |-> "", stage |-> "", warned |-> FALSE,
               ret |-> "", results |-> <<>>]
    /\ calls = 0

\* one call of the controller: r is what the handler did
Do(call, r) ==
    /\ calls < MaxCalls
    /\ dataset' = r.dataset
    /\ prev' = dataset
    /\ last' = [call |-> call, outcome |-> r.outcome, stage |-> r.stage,
                warned |-> r.warned, ret |-> r.ret, results |-> r.results]
    /\ calls' = calls + 1

TagString ==
    \E fields \in FieldLists, values \in ValueLists, tag \in Tags :
        Do([NoCall EXCEPT !.op = "tag_string", !.fields = fields,
                          !.values = values, !.tag = tag],
           tag_string(dataset, fields, values, tag))

TagRegex ==
    \E fields \in FieldLists, regex \in Regexes, tag \in Tags :
        Do([NoCall EXCEPT !.op = "tag_regex", !.fields = fields,
                          !.regex = regex, !.tag = tag],
           tag_regex(dataset, fields, regex, tag))

DetectLanguage ==
    \E field \in Fields, loadOk \in BOOLEAN, model \in LidModels :
        Do([NoCall EXCEPT !.op = "detect_language", !.field = field,
                          !.fasttext = model],
           detect_language(dataset, field, loadOk, model))

CalcPerplexity ==
    \E c \in PerplexityCalls, loadOk \in BOOLEAN :
        Do([NoCall EXCEPT !.op = "calc_perplexity", !.field = c.field,
                          !.model = c.model, !.language = c.language,
                          !.dataset = c.dataset],
           calc_perplexity(dataset, c.field, c.model, c.language, c.dataset, loadOk))

DetectPii ==
    \E fields \in FieldLists, scanner \in Scanners :
        Do([NoCall EXCEPT !.op = "detect_pii", !.fields = fields,
                          !.scanner = scanner],
           detect_pii(dataset, fields, scanner))

DetectSeoSpam ==
    \E field \in SpamFields, loadOk \in BOOLEAN, model \in SpamModels :
        Do([NoCall EXCEPT !.op = "detect_seo_spam", !.field = field,
                          !.fasttext = model],
           detect_seo_spam(dataset, field, loadOk, model))

CountTokens ==
    \E fields \in CountFieldLists, tokenizer \in TokenizerArgs :
        Do([NoCall EXCEPT !.op = "count_tokens", !.fields = fields,
                          !.tokenizer = tokenizer],
           count_tokens(dataset, fields, tokenizer))

Next ==
    \/ TagString
    \/ TagRegex
    \/ DetectLanguage
    \/ CalcPerplexity
    \/ DetectPii
    \/ DetectSeoSpam
    \/ CountTokens

Spec == Init /\ [][Next]_vars

\* ============================================================ properties
\* A state holds the dataset before the last call (prev), the dataset after it
\* (dataset) and what the call did (last), so a statement about one call is a
\* state predicate and a statement about every call of a chain an invariant.

Failed == last.outcome \notin {"", "ok"}
Succeeded == last.outcome = "ok"
NRows == Len(prev.rows)
TagColumn == "__tag__" \o last.call.tag
Range(seq) == {seq[k] : k \in 1..Len(seq)}
ReservedIn(ds) == DOMAIN ds.features \ DOMAIN UserFeatures

\* v occurs in s as a run of consecutive characters
IsSubstring(v, s) ==
    \E i \in 1..(Len(s) + 1) :
        /\ i + Len(v) - 1 <= Len(s)
        /\ \A j \in 1..Len(v) : s[i + j - 1] = v[j]

\* the value as text: itself when it is text, its printed form otherwise
Stringified(v) == IF v.t = "str" THEN v.s ELSE Str(v)

\* ---- C1
\* C1: a call of any operation that ends in an exception (missing field, type
\* mismatch, configuration, model load, a row that fails while mapping) leaves
\* the controller's dataset exactly as it was before the call.
C1_FailedCallKeepsDataset == Failed => dataset = prev

\* a map that failed on its second row, after the first was computed
C1_Witness ==
    /\ last.call.op = "detect_seo_spam"
    /\ last.stage = "map"
    /\ Len(last.results) = 2
    /\ last.results[1].ok
    /\ dataset = prev

\* ---- C2
KenlmCallOnText ==
    /\ last.call.op = "calc_perplexity"
    /\ last.call.field = "text"
    /\ last.call.model \in {Omitted, "kenlm"}

Supplied(arg) == arg \notin {Omitted, PyNone}

ConfigError == last.outcome = "ValueError" /\ last.stage = "config"

RaisedBeforeRows == Failed /\ last.stage = "validate" /\ last.results = <<>>

\* C3: detect_language, calc_perplexity, detect_seo_spam and count_tokens raise
\* for a field absent from the schema before any row is mapped, whatever the
\* dataset; tag_string, tag_regex and detect_pii never raise for one.
C3_MissingFieldRaisesBeforeRows ==
    /\ (/\ last.call.op \in {"detect_language", "calc_perplexity", "detect_seo_spam"}
        /\ last.call.field \notin DOMAIN prev.features) => RaisedBeforeRows
    /\ (/\ last.call.op = "count_tokens"
        /\ \E f \in Range(last.call.fields) : f \notin DOMAIN prev.features)
           => RaisedBeforeRows
    /\ (/\ last.call.op \in {"tag_string", "tag_regex", "detect_pii"}
        /\ \E f \in Range(last.call.fields) : f \notin DOMAIN prev.features)
           => (last.outcome # "KeyError" /\ last.stage # "validate")

\* ---- C4
TagCall == last.call.op \in {"tag_string", "tag_regex"}

\* the fields of the call that row i holds
PresentFields(i) == {f \in Range(last.call.fields) : f \in DOMAIN prev.rows[i]}

\* the pattern of the call occurs in the text: one of the literals (any text,
\* for the empty alternation of no literal), or a match of the regex
PatternOccurs(text) ==
    IF last.call.op = "tag_string"
    THEN \/ last.call.values = <<>>
         \/ \E v \in Range(last.call.values) : IsSubstring(v, text)
    ELSE re_search(re_compile(last.call.regex), text)

\* C4: after tag_string or tag_regex, a row's tag is true exactly when one of
\* the fields the row holds has a stringified value in which the pattern
\* occurs; a field the row lacks is skipped without an error.
C4_TagIffSomePresentFieldMatches ==
    (/\ last.call.op \in {"tag_string", "tag_regex"}
     /\ (last.call.op = "tag_regex" => re_compile(last.call.regex).ok))
        => /\ Succeeded
           /\ \A i \in 1..NRows :
                 dataset.rows[i][TagColumn] =
                     (\E f \in PresentFields(i) :
                         PatternOccurs(Stringified(prev.rows[i][f])))

\* a missing field before two present ones: one row matches only in the last
\* field, the other in the printed form of its list
C4_Witness ==
    /\ TagCall
    /\ Succeeded
    /\ last.call.fields = <<"missing", "meta", "text">>
    /\ \E i \in 1..NRows :
          /\ dataset.rows[i][TagColumn]
          /\ ~PatternOccurs(Stringified(prev.rows[i]["meta"]))
    /\ \E i \in 1..NRows :
          /\ dataset.rows[i][TagColumn]
          /\ prev.rows[i]["meta"].t = "list"
          /\ PatternOccurs(Stringified(prev.rows[i]["meta"]))

\* ---- C5
TagExisted == TagCall /\ TagColumn \in DOMAIN prev.features

ColumnReplaced(c) ==
    /\ Succeeded
    /\ \A i \in 1..NRows : dataset.rows[i][c] = last.results[i].out[c]

\* C5 as stated: a call warns exactly when it is tag_string or tag_regex and
\* its tag column exists when it starts, and then it still completes and
\* replaces the column; calc_perplexity never warns.
C5_WarnsAndCompletes ==
    /\ last.warned <=> TagExisted
    /\ TagExisted => ColumnReplaced(TagColumn)

\* C5 amended: a call warns exactly when it is tag_string or tag_regex and its
\* tag column exists when it starts; it then completes and replaces the column,
\* unless it is a tag_regex whose pattern does not compile, which raises after
\* the warning and leaves the column as it was.  calc_perplexity never warns.
C5_WarnsIffTagExists ==
    /\ last.warned <=> TagExisted
    /\ TagExisted =>
          \/ ColumnReplaced(TagColumn)
          \/ /\ last.call.op = "tag_regex"
             /\ ~re_compile(last.call.regex).ok
             /\ last.outcome = "re.error"
             /\ dataset = prev
    /\ last.call.op = "calc_perplexity" => ~last.warned

\* a tag written a second time, with another value in some row
C5_Witness ==
    /\ last.warned
    /\ Succeeded
    /\ \E i \in 1..NRows : dataset.rows[i][TagColumn] # prev.rows[i][TagColumn]

\* ---- C6
SpamFlag(i) == dataset.rows[i]["__seo_spam__" \o last.call.field]
SpamProb(i) == dataset.rows[i]["__seo_spam_prob__" \o last.call.field]
Answer(i) == last.results[i].a[1]

\* C6: after detect_seo_spam, for a row the classifier answered (label, p) with
\* p in [0, 1]: the flag is true exactly for the label discard, the probability
\* column is p for discard and 1 - p otherwise, and it lies in [0, 1].
C6_SpamCalibration ==
    (last.call.op = "detect_seo_spam" /\ Succeeded) =>
        \A i \in 1..NRows :
            LET label == Answer(i).labels[1].name
                p == Answer(i).probs[1]
            IN  p \in 0..One =>
                   /\ SpamFlag(i) = (label = "discard")
                   /\ SpamProb(i) = (IF label = "discard" THEN p ELSE One - p)
                   /\ SpamProb(i) \in 0..One

\* a row answered keep with 0.9 next to a row answered discard
C6_Witness ==
    /\ last.call.op = "detect_seo_spam"
    /\ Succeeded
    /\ \E i \in 1..NRows :
          /\ Answer(i).labels[1].name = "keep"
          /\ Answer(i).probs[1] = 90
          /\ SpamProb(i) = 10
    /\ \E i \in 1..NRows : SpamFlag(i)

\* ---- C7
\* the categories the scanner finds in the fields of the call that row i holds
Found(i) ==
    UNION { {f.detector_name :
                f \in Range(list_filth(last.call.scanner,
                                       Stringified(prev.rows[i][fld])))} :
            fld \in PresentFields(i) }

PiiNames == {"__pii__email", "__pii__phone", "__pii__credential", "__pii__any"}

\* C7: after detect_pii, each of the flags email, phone and credential of a row
\* is true exactly when a finding of that category exists in the fields the row
\* holds, __pii__any exactly when a finding of any category exists, so a
\* category flag implies __pii__any; no column but these four is created.
C7_PiiFlags ==
    (last.call.op = "detect_pii" /\ Succeeded) =>
        /\ \A i \in 1..NRows :
              /\ dataset.rows[i]["__pii__email"] = ("email" \in Found(i))
              /\ dataset.rows[i]["__pii__phone"] = ("phone" \in Found(i))
              /\ dataset.rows[i]["__pii__credential"] = ("credential" \in Found(i))
              /\ dataset.rows[i]["__pii__any"] = (Found(i) # {})
              /\ \A c \in PiiNames : dataset.rows[i][c] => dataset.rows[i]["__pii__any"]
        /\ (DOMAIN dataset.features \ DOMAIN prev.features) \subseteq PiiNames

\* a row whose only finding is of an untracked category
C7_Witness ==
    /\ last.call.op = "detect_pii"
    /\ Succeeded
    /\ \E i \in 1..NRows :
          /\ Found(i) = {"twitter"}
          /\ dataset.rows[i]["__pii__any"]
          /\ ~dataset.rows[i]["__pii__email"]
          /\ ~dataset.rows[i]["__pii__phone"]
          /\ ~dataset.rows[i]["__pii__credential"]

\* ---- C8
\* the columns an operation writes, by the naming of the reserved namespaces
OwnColumns ==
    LET c == last.call IN
    IF c.op \in {"tag_string", "tag_regex"} THEN {"__tag__" \o c.tag}
    ELSE IF c.op = "detect_language" THEN {"__language"}
    ELSE IF c.op = "calc_perplexity" THEN {"__perplexity"}
    ELSE IF c.op = "detect_pii" THEN PiiNames
    ELSE IF c.op = "detect_seo_spam"
    THEN {"__seo_spam__" \o c.field, "__seo_spam_prob__" \o c.field}
    ELSE IF c.op = "count_tokens"
    THEN {(IF c.tokenizer = Omitted THEN "__byte_count__" ELSE "__token_count__") \o f :
             f \in Range(c.fields)}
    ELSE {}

\* the call wrote column c: it succeeded, on some row, and c is a column of its own
Wrote(c) == Succeeded /\ NRows > 0 /\ c \in OwnColumns

\* C8: in every call of a chain, successful or not, a reserved column that was
\* there stays, and each reserved column holds, for every row, either the value
\* this call computed (when the call succeeded and targets the column) or, for
\* every row, the value it held before: a column is always the work of one
\* invocation, the last successful one that targets it.
C8_ColumnsWhole ==
    /\ ReservedIn(prev) \subseteq ReservedIn(dataset)
    /\ Len(dataset.rows) = NRows
    /\ \A c \in ReservedIn(dataset) : \A i \in 1..NRows :
          /\ c \in DOMAIN dataset.rows[i]
          /\ IF Wrote(c)
             THEN /\ c \in DOMAIN last.results[i].out
                  /\ dataset.rows[i][c] = last.results[i].out[c]
             ELSE /\ c \in DOMAIN prev.features
                  /\ dataset.rows[i][c] = prev.rows[i][c]

\* a perplexity column of two rows written over by the other backend
C8_Witness ==
    /\ last.call.op = "calc_perplexity"
    /\ Succeeded
    /\ NRows = 2
    /\ "__perplexity" \in DOMAIN prev.features
    /\ \A i \in 1..NRows :
          dataset.rows[i]["__perplexity"].backend # prev.rows[i]["__perplexity"].backend

C10_Frame ==
    Succeeded =>
        /\ last.ret = "self"
        /\ Len(dataset.rows) = NRows
        /\ DOMAIN dataset.features \ OwnColumns = DOMAIN prev.features \ OwnColumns
        /\ \A c \in DOMAIN prev.features \ OwnColumns :
              /\ dataset.features[c] = prev.features[c]
              /\ \A i \in 1..NRows : dataset.rows[i][c] = prev.rows[i][c]

\* detect_seo_spam on text after detect_seo_spam on title, in a dataset of two rows
C10_Witness ==
    /\ last.call.op = "detect_seo_spam"
    /\ last.call.field = "text"
    /\ Succeeded
    /\ NRows = 2
    /\ "__seo_spam__title" \in DOMAIN prev.features
    /\ \A i \in 1..NRows :
          /\ dataset.rows[i]["__seo_spam__title"] = prev.rows[i]["__seo_spam__title"]
          /\ dataset.rows[i]["__seo_spam_prob__title"] = prev.rows[i]["__seo_spam_prob__title"]

====
